---- MODULE Spec2Model ----
(***************************************************************************)
(* Intrusion-detection and IP-blocking engine of CyberLogSystem:           *)
(*   BlockedIP model (models/BlockedIP.js), the request gate               *)
(*   (middleware/intrusionDetectionMiddleware.js), the detection service   *)
(*   (services/intrusionDetectionService.js) and the login flow            *)
(*   (controllers/authController.js).                                      *)
(* Times are milliseconds, as Date.now() gives them.  Every await of a     *)
(* database call is a step boundary: a handler is cut into the steps       *)
(* between its awaits, and other handlers may run in between.              *)
(***************************************************************************)
EXTENDS Integers, Sequences, FiniteSets, TLC

\* ------------------------------------------------------------------ bounds
MaxTicks    == 1   \* clock advances per behaviour
MaxRequests == 3   \* requests entering the gate per behaviour
MaxCalls    == 3   \* BlockedIP statics invoked directly per behaviour
MaxBlocks   == 1   \* blockIP calls beside the gate per behaviour
MaxOver     == 2   \* requests admitted past the escalation threshold
MaxLogins   == 6   \* login attempts per behaviour

\* ------------------------------------------------------- program constants
MAX_REQUESTS_PER_MINUTE == 100
REQUEST_WINDOW          == 60 * 1000
maxFailedAttempts       == 5
timeWindow              == 15 * 60 * 1000
blockDuration           == 60
lockAfter               == 5
lockMs                  == 30 * 60 * 1000

NullTime     == 0 - 1     \* expiresAt: null
NullDuration == 0 - 1     \* options.duration: null
NoUser       == "null"    \* req.user / blockedBy / Log.user: null

IPs      == {"ip1", "ip2"}
ReqIds   == {1, 2}
CallIds  == {1, 2}
LoginIds == {1, 2}

\* ------------------------------------------------------------------- state
VARIABLES
  now,            \* Date.now()
  ticks,          \* clock advances so far
  blockedIPs,     \* the BlockedIP collection, in insertion order
  events,         \* the IntrusionEvent collection
  logs,           \* the Log collection
  alerts,         \* security alerts handed to the notification service
  requestCounts,  \* the Map of trackRequestPatterns
  served,         \* budget: requests admitted so far (kept by the specifications)
  req,            \* the requests in the middleware chain
  call,           \* direct invocations of the BlockedIP statics
  called,         \* direct invocations so far
  blocksDone,     \* history: completed blockIP calls per address
  lastBlock,      \* history: the last completed blockIP / unblockIP per address
  window,         \* history: the sliding window of each address, as specified
  login,          \* the login requests in exports.login
  userActivity,   \* the UserActivity collection (login activities)
  account,        \* security.failedLoginAttempts / accountLockedUntil of the user
  attempts,       \* budget: login requests so far
  failed          \* history: logins answered 401 Invalid credentials, per address

vars == <<now, ticks, blockedIPs, events, logs, alerts, requestCounts, served,
          req, call, called, blocksDone, lastBlock, window,
          login, userActivity, account, attempts, failed>>

loginVars == <<login, userActivity, account, attempts, failed>>

\* ----------------------------------------------------- BlockedIP (models)
\* findOne / findOneAndUpdate({ ipAddress }): the first matching document
FindIndex(docs, ip) ==
  IF \E i \in DOMAIN docs : docs[i].ipAddress = ip
  THEN CHOOSE i \in DOMAIN docs :
         /\ docs[i].ipAddress = ip
         /\ \A j \in DOMAIN docs : docs[j].ipAddress = ip => i <= j
  ELSE 0

\* the filter of isBlocked: active, and permanent or not yet expired
IsBlockedDoc(d, ip, t) ==
  /\ d.ipAddress = ip
  /\ d.isActive
  /\ (d.expiresAt = NullTime \/ d.expiresAt > t)

isBlocked(docs, ip, t) == \E i \in DOMAIN docs : IsBlockedDoc(docs[i], ip, t)

\* duration ? new Date(Date.now() + duration * 60 * 1000) : null
ExpiresAt(duration, t) ==
  IF duration # NullDuration /\ duration # 0
  THEN t + duration * 60 * 1000
  ELSE NullTime

\* faulty variant: the update sets the fields but leaves out $inc
blockIP_NoInc(docs, ip, reason, blockType, blockedBy, expiresAt) ==
  LET i == FindIndex(docs, ip) IN
  IF i # 0
  THEN [docs EXCEPT ![i] = [@ EXCEPT !.reason = reason,
                                      !.blockType = blockType,
                                      !.blockedBy = blockedBy,
                                      !.expiresAt = expiresAt,
                                      !.isActive = TRUE]]
  ELSE Append(docs, [ipAddress |-> ip, reason |-> reason, blockType |-> blockType,
                     blockedBy |-> blockedBy, expiresAt |-> expiresAt,
                     isActive |-> TRUE, violationCount |-> 1])

\* faulty variant: an automatic block leaves an active permanent manual block
\* as it is and only counts the violation
blockIP_KeepManual(docs, ip, reason, blockType, blockedBy, expiresAt) ==
  LET i == FindIndex(docs, ip) IN
  IF i # 0
  THEN IF /\ blockType = "automatic" /\ docs[i].isActive
          /\ docs[i].blockType = "manual" /\ docs[i].expiresAt = NullTime
       THEN [docs EXCEPT ![i].violationCount = @ + 1]
       ELSE [docs EXCEPT ![i] = [@ EXCEPT !.reason = reason,
                                           !.blockType = blockType,
                                           !.blockedBy = blockedBy,
                                           !.expiresAt = expiresAt,
                                           !.isActive = TRUE,
                                           !.violationCount = @ + 1]]
  ELSE Append(docs, [ipAddress |-> ip, reason |-> reason, blockType |-> blockType,
                     blockedBy |-> blockedBy, expiresAt |-> expiresAt,
                     isActive |-> TRUE, violationCount |-> 1])

\* findOneAndUpdate({ipAddress}, {$set, $inc: {violationCount: 1}}, {upsert})
blockIP(docs, ip, reason, blockType, blockedBy, expiresAt) ==
  LET i == FindIndex(docs, ip) IN
  IF i # 0
  THEN [docs EXCEPT ![i] = [@ EXCEPT !.reason = reason,
                                      !.blockType = blockType,
                                      !.blockedBy = blockedBy,
                                      !.expiresAt = expiresAt,
                                      !.isActive = TRUE,
                                      !.violationCount = @ + 1]]
  ELSE Append(docs, [ipAddress |-> ip, reason |-> reason, blockType |-> blockType,
                     blockedBy |-> blockedBy, expiresAt |-> expiresAt,
                     isActive |-> TRUE, violationCount |-> 1])

\* faulty variant: the record is removed instead of deactivated
unblockIP_Delete(docs, ip) ==
  LET Keep(d) == d.ipAddress # ip IN SelectSeq(docs, Keep)

\* faulty variant: the update is an upsert, as the one of blockIP
unblockIP_Upsert(docs, ip) ==
  LET i == FindIndex(docs, ip) IN
  IF i # 0 THEN [docs EXCEPT ![i].isActive = FALSE]
  ELSE Append(docs, [ipAddress |-> ip, reason |-> "none", blockType |-> "manual",
                     blockedBy |-> NoUser, expiresAt |-> NullTime,
                     isActive |-> FALSE, violationCount |-> 0])

\* findOneAndUpdate({ipAddress}, {$set: {isActive: false}}): no upsert
unblockIP(docs, ip) ==
  LET i == FindIndex(docs, ip) IN
  IF i # 0 THEN [docs EXCEPT ![i].isActive = FALSE] ELSE docs

\* what unblockIP resolves to ({new: true}): the updated document, or null
\* when no document matches
NoDoc == [ipAddress |-> "null"]

unblockIPResult(docs, ip) ==
  LET i == FindIndex(docs, ip) IN
  IF i # 0 THEN unblockIP(docs, ip)[i] ELSE NoDoc

\* faulty variant: the filter is $lt instead of $lte
ExpiredDoc_Lt(d, t) == d.isActive /\ d.expiresAt # NullTime /\ d.expiresAt < t

\* updateMany({isActive: true, expiresAt: {$lte: now}}, {$set: {isActive: false}})
ExpiredDoc(d, t) == d.isActive /\ d.expiresAt # NullTime /\ d.expiresAt <= t

cleanupExpiredBlocks(docs, t) ==
  [i \in DOMAIN docs |->
     IF ExpiredDoc(docs[i], t) THEN [docs[i] EXCEPT !.isActive = FALSE] ELSE docs[i]]

\* result.modifiedCount: every matched document is active, so each is modified
cleanupResult(docs, t) ==
  Cardinality({i \in DOMAIN docs : ExpiredDoc(docs[i], t)})

\* ---------------------------------------------------------------- the clock
Tick(d) ==
  /\ ticks < MaxTicks
  /\ now' = now + d
  /\ ticks' = ticks + 1
  /\ UNCHANGED <<blockedIPs, events, logs, alerts, requestCounts, served,
                 req, call, called, blocksDone, lastBlock, window, loginVars>>

\* ------------------------------------ direct calls of the BlockedIP statics
IdleCall == [pc |-> "idle", op |-> "none", ip |-> "ip1", reason |-> "none",
             blockType |-> "automatic", blockedBy |-> NoUser,
             duration |-> NullDuration, expiresAt |-> NullTime, at |-> 0]

NoBlock == [set |-> FALSE, at |-> 0, done |-> 0, duration |-> NullDuration,
            unblocked |-> FALSE]

\* BlockedIP.blockIP(ip, reason, options): expiresAt is computed before the await
CallBlockIP(c, ip, reason, blockType, blockedBy, duration) ==
  /\ call[c].pc = "idle"
  /\ called' = called + 1
  /\ call' = [call EXCEPT ![c] =
                [pc |-> "pending", op |-> "blockIP", ip |-> ip, reason |-> reason,
                 blockType |-> blockType, blockedBy |-> blockedBy,
                 duration |-> duration, expiresAt |-> ExpiresAt(duration, now),
                 at |-> now]]
  /\ UNCHANGED <<now, ticks, blockedIPs, events, logs, alerts, requestCounts,
                 served, req, blocksDone, lastBlock, window, loginVars>>

\* the upsert reaches the database; a storage error rejects the call
BlockIPDone(c, ok) ==
  /\ call[c].pc = "pending" /\ call[c].op = "blockIP"
  /\ call' = [call EXCEPT ![c] = IdleCall]
  /\ IF ok
     THEN /\ blockedIPs' = blockIP(blockedIPs, call[c].ip, call[c].reason,
                                   call[c].blockType, call[c].blockedBy,
                                   call[c].expiresAt)
          /\ blocksDone' = [blocksDone EXCEPT ![call[c].ip] = @ + 1]
          /\ lastBlock' = [lastBlock EXCEPT ![call[c].ip] =
                             [set |-> TRUE, at |-> call[c].at, done |-> now,
                              duration |-> call[c].duration,
                              unblocked |-> FALSE]]
     ELSE UNCHANGED <<blockedIPs, blocksDone, lastBlock>>
  /\ UNCHANGED <<now, ticks, events, logs, alerts, requestCounts, served,
                 req, called, window, loginVars>>

\* BlockedIP.unblockIP(ip, admin)
CallUnblockIP(c, ip) ==
  /\ call[c].pc = "idle"
  /\ called' = called + 1
  /\ call' = [call EXCEPT ![c] = [IdleCall EXCEPT !.pc = "pending",
                                                  !.op = "unblockIP",
                                                  !.ip = ip, !.at = now]]
  /\ UNCHANGED <<now, ticks, blockedIPs, events, logs, alerts, requestCounts,
                 served, req, blocksDone, lastBlock, window, loginVars>>

UnblockIPDone(c, ok) ==
  /\ call[c].pc = "pending" /\ call[c].op = "unblockIP"
  /\ call' = [call EXCEPT ![c] = IdleCall]
  /\ IF ok
     THEN /\ blockedIPs' = unblockIP(blockedIPs, call[c].ip)
          /\ lastBlock' = [lastBlock EXCEPT ![call[c].ip] =
                             [NoBlock EXCEPT !.unblocked = TRUE]]
     ELSE UNCHANGED <<blockedIPs, lastBlock>>
  /\ UNCHANGED <<now, ticks, events, logs, alerts, requestCounts, served,
                 req, called, blocksDone, window, loginVars>>

\* BlockedIP.cleanupExpiredBlocks(): now is taken before the await
CallCleanup(c) ==
  /\ call[c].pc = "idle"
  /\ called' = called + 1
  /\ call' = [call EXCEPT ![c] = [IdleCall EXCEPT !.pc = "pending",
                                                  !.op = "cleanup", !.at = now]]
  /\ UNCHANGED <<now, ticks, blockedIPs, events, logs, alerts, requestCounts,
                 served, req, blocksDone, lastBlock, window, loginVars>>

CleanupDone(c, ok) ==
  /\ call[c].pc = "pending" /\ call[c].op = "cleanup"
  /\ call' = [call EXCEPT ![c] = IdleCall]
  /\ blockedIPs' = IF ok THEN cleanupExpiredBlocks(blockedIPs, call[c].at)
                         ELSE blockedIPs
  /\ UNCHANGED <<now, ticks, events, logs, alerts, requestCounts, served,
                 req, called, blocksDone, lastBlock, window, loginVars>>

\* --------------------------------------------- signature analysis (service)
\* A request is serialized by JSON.stringify({url, query, body, headers}) and
\* the regular expressions are tested on that one string.  The string is
\* modelled as its sequence of tokens; a pattern is the sequence of token
\* classes it needs in that order, with anything in between (.*).  A class
\* holds every spelling the expression accepts (the /i flag, and OR without \b).
DQ == "dq"   \* the double quote JSON.stringify puts around every string

requestString(url, payload) == <<"{", DQ, url, DQ>> \o payload \o <<DQ, "}">>

sqlInjectionPatterns ==
  << <<{"UNION", "union"}, {"SELECT", "select"}>>,
     <<{"SELECT", "select"}, {"FROM", "from"}>>,
     <<{"INSERT", "insert"}, {"INTO", "into"}>>,
     <<{"DROP", "drop"}, {"TABLE", "table"}>>,
     <<{"DELETE", "delete"}, {"FROM", "from"}>>,
     <<{"'"}, {"OR", "or", "origin"}, {"'"}, {"="}, {"'"}>>,
     <<{DQ}, {"OR", "or", "origin"}, {DQ}, {"="}, {DQ}>> >>

xssPatterns ==
  << <<{"<script>"}, {"</script>"}>>,
     <<{"javascript:"}>>,
     <<{"onerror=", "onload="}>>,
     <<{"<iframe>"}>>,
     <<{"<object>"}>> >>

RECURSIVE MatchFrom(_, _, _, _)
MatchFrom(s, pat, i, j) ==
  IF j > Len(pat) THEN TRUE
  ELSE IF i > Len(s) THEN FALSE
  ELSE IF s[i] \in pat[j] THEN MatchFrom(s, pat, i + 1, j + 1)
  ELSE MatchFrom(s, pat, i + 1, j)

\* pattern.test(requestString)
PatternTest(pat, s) == MatchFrom(s, pat, 1, 1)

AnyPattern(pats, s) == \E k \in DOMAIN pats : PatternTest(pats[k], s)

\* faulty variant: the XSS loop is missing
Scan_SqlOnly(s) ==
  IF AnyPattern(sqlInjectionPatterns, s)
  THEN [threat |-> TRUE, intrusionType |-> "sql_injection", severity |-> "High"]
  ELSE [threat |-> FALSE, intrusionType |-> "none", severity |-> "Medium"]

\* faulty variant: the XSS loop runs first
Scan_XssFirst(s) ==
  IF AnyPattern(xssPatterns, s)
  THEN [threat |-> TRUE, intrusionType |-> "xss_attack", severity |-> "Medium"]
  ELSE IF AnyPattern(sqlInjectionPatterns, s)
  THEN [threat |-> TRUE, intrusionType |-> "sql_injection", severity |-> "High"]
  ELSE [threat |-> FALSE, intrusionType |-> "none", severity |-> "Medium"]

\* the two loops of analyzeHttpRequest: SQL first, XSS only if no SQL match
Scan(s) ==
  IF AnyPattern(sqlInjectionPatterns, s)
  THEN [threat |-> TRUE, intrusionType |-> "sql_injection", severity |-> "High"]
  ELSE IF AnyPattern(xssPatterns, s)
  THEN [threat |-> TRUE, intrusionType |-> "xss_attack", severity |-> "Medium"]
  ELSE [threat |-> FALSE, intrusionType |-> "none", severity |-> "Medium"]

\* payloads the requests of the model carry
Clean   == <<"id", "1">>
Sqli    == <<"id", "1", "union", "select", "password", "FROM", "users">>
QuoteOr == <<"'", "OR", "'", "1", "'", "=", "'", "1">>
Xss     == <<"<script>", "alert", "</script>">>
SqlXss  == <<"drop", "table", "users", "<iframe>">>

\* Log model: user is required, so a null user fails validation in Log.create
LogValid(user) == user # NoUser

\* ------------------------------------------------- the client's address
\* A string is its sequence of tokens.  A request carries the
\* x-forwarded-for header (empty when absent), the peer address of its
\* socket and req.ip (the peer address: the app sets no trust proxy).
NoClient == [xff |-> <<>>, remoteAddress |-> <<>>, ip |-> <<>>]

\* s.split(',')[0]
SplitFirst(s) ==
  LET commas == {i \in DOMAIN s : s[i] = ","} IN
  IF commas = {} THEN s
  ELSE SubSeq(s, 1, (CHOOSE i \in commas : \A j \in commas : i <= j) - 1)

\* s.trim()
RECURSIVE Trim(_)
Trim(s) ==
  IF s = <<>> THEN s
  ELSE IF Head(s) = " " THEN Trim(Tail(s))
  ELSE IF s[Len(s)] = " " THEN Trim(SubSeq(s, 1, Len(s) - 1))
  ELSE s

\* s.replace('::ffff:', ''): the first occurrence is removed
StripMapped(s) ==
  LET hits == {i \in DOMAIN s : s[i] = "::ffff:"} IN
  IF hits = {} THEN s
  ELSE LET k == CHOOSE i \in hits : \A j \in hits : i <= j
       IN SubSeq(s, 1, k - 1) \o SubSeq(s, k + 1, Len(s))

\* utils/network getClientIp, used by exports.login
getClientIp(c) ==
  IF c.xff # <<>> THEN Trim(SplitFirst(c.xff))
  ELSE LET ip == StripMapped(IF c.ip # <<>> THEN c.ip ELSE c.remoteAddress) IN
       IF ip \in {<<"127.0.0.1">>, <<"::1">>, <<>>} THEN <<"203.0.113.45">>
       ELSE ip

\* intrusionDetectionService.getClientIP, used by the gate
getClientIP(c) ==
  IF c.xff # <<>> /\ SplitFirst(c.xff) # <<>> THEN SplitFirst(c.xff)
  ELSE IF c.remoteAddress # <<>> THEN c.remoteAddress
  ELSE IF c.ip # <<>> THEN c.ip
  ELSE <<"unknown">>

\* the two addresses of the model, written out
AddressOf == [ip1 |-> <<"198.51.100.7">>, ip2 |-> <<"::ffff:", "198.51.100.7">>]

AddressName(s) == CHOOSE ip \in IPs : AddressOf[ip] = s

\* clients: connected directly over IPv4, directly over a dual-stack socket
\* (IPv4-mapped peer address), and through a proxy that sets the header
Direct  == [xff |-> <<>>, remoteAddress |-> <<"198.51.100.7">>,
            ip |-> <<"198.51.100.7">>]
Mapped  == [xff |-> <<>>, remoteAddress |-> <<"::ffff:", "198.51.100.7">>,
            ip |-> <<"::ffff:", "198.51.100.7">>]
Proxied == [xff |-> <<"198.51.100.7", ",", " ", "10.0.0.1">>,
            remoteAddress |-> <<"10.0.0.1">>, ip |-> <<"10.0.0.1">>]

Clients == {Direct, Mapped, Proxied}

\* ------------------------------------------------------ the request gate
HealthPath == "/api/health"
skipPaths  == {"/api/health", "/api/auth/login", "/api/auth/signup"}

NoEntry == [count |-> 0, firstRequest |-> 0]   \* !requestCounts.has(ip)

IdleReq == [pc |-> "idle", ip |-> "ip1", path |-> HealthPath, payload |-> Clean,
            user |-> NoUser, at |-> 0, status |-> 0, code |-> "none",
            threatType |-> "none", responses |-> 0, stages |-> <<>>, nth |-> 0,
            seq |-> 0, scans |-> 0, evs |-> 0, lookupErr |-> FALSE,
            createErr |-> FALSE, bg |-> "none", client |-> NoClient]
\* history fields of a request: stages (the middleware functions that ran),
\* nth (the count the rate stage read), seq (its number in the window as
\* specified), scans, evs (the IntrusionEvents stored for it), lookupErr and
\* createErr (storage errors it met)

\* faulty variant: the catch of isIPBlocked answers "blocked" (fail closed)
isIPBlocked_FailClosed(docs, ip, t, dbOk) ==
  IF dbOk THEN isBlocked(docs, ip, t) ELSE TRUE

\* intrusionDetectionService.isIPBlocked: a storage error counts as not blocked
isIPBlocked(docs, ip, t, dbOk) == IF dbOk THEN isBlocked(docs, ip, t) ELSE FALSE

\* the clean-up loop of trackRequestPatterns
Swept(rc, t) ==
  [ip \in IPs |-> IF rc[ip].count > 0 /\ t - rc[ip].firstRequest > REQUEST_WINDOW
                  THEN NoEntry ELSE rc[ip]]

\* faulty variant: every request restarts the window of its address
trackRequestPatterns_Extend(rc, ip, t) ==
  LET s == Swept(rc, t) IN
  [s EXCEPT ![ip] = [count |-> s[ip].count + 1, firstRequest |-> t]]

\* requestCounts after the request of ip at t is tracked
trackRequestPatterns(rc, ip, t) ==
  LET s == Swept(rc, t) IN
  IF s[ip].count = 0
  THEN [s EXCEPT ![ip] = [count |-> 1, firstRequest |-> t]]
  ELSE [s EXCEPT ![ip].count = @ + 1]

\* history: a window starts at the first request of an address and at the
\* first request later than REQUEST_WINDOW after the window's start
NoWindow == [start |-> 0, seen |-> 0, prev |-> 0]

Slide(w, ip, t) ==
  IF w[ip].seen = 0 \/ t - w[ip].start > REQUEST_WINDOW
  THEN [w EXCEPT ![ip] = [start |-> t, seen |-> 1, prev |-> w[ip].seen]]
  ELSE [w EXCEPT ![ip].seen = @ + 1]

\* faulty variant: the limit test is >= instead of >
Exceeded_Ge(n) == n >= MAX_REQUESTS_PER_MINUTE

Exceeded(n) == n > MAX_REQUESTS_PER_MINUTE
Severe(n)   == n > MAX_REQUESTS_PER_MINUTE * 2

\* next() into the application
Allowed(rq) == [rq EXCEPT !.pc = "done", !.code = "ALLOWED", !.responses = @ + 1]

\* res.status(status).json({code})
Rejected(rq, status, code) ==
  [rq EXCEPT !.pc = "done", !.status = status, !.code = code, !.responses = @ + 1]

\* analyzeRequest up to its await: skipped paths go on, the others are scanned;
\* a match leaves IntrusionEvent.create pending
analyzeRequest(rq) ==
  LET rq1 == [rq EXCEPT !.stages = Append(@, "content")] IN
  IF rq.path \in skipPaths THEN Allowed(rq1)
  ELSE LET rq2 == [rq1 EXCEPT !.scans = @ + 1] IN
       IF Scan(requestString(rq.path, rq.payload)).threat
       THEN [rq2 EXCEPT !.pc = "create"]
       ELSE Allowed(rq2)

\* faulty variant: the 429 branch does not return, so next() runs as well
rateStage_NoReturn(rq, n) ==
  LET rq1 == [rq EXCEPT !.stages = Append(@, "rate"), !.nth = n] IN
  IF Exceeded(n)
  THEN LET rq2 == IF Severe(n)
                  THEN [rq1 EXCEPT !.scans = @ + 1,
                                   !.bg = IF Scan(requestString(rq.path, rq.payload)).threat
                                          THEN "create" ELSE "none"]
                  ELSE rq1
       IN analyzeRequest(Rejected(rq2, 429, "RATE_LIMIT_EXCEEDED"))
  ELSE analyzeRequest(rq1)

\* the handler of trackRequestPatterns for a request whose count became n:
\* over the limit it answers 429 (and past twice the limit it first starts
\* analyzeHttpRequest without awaiting it), otherwise it calls next()
rateStage(rq, n) ==
  LET rq1 == [rq EXCEPT !.stages = Append(@, "rate"), !.nth = n] IN
  IF Exceeded(n)
  THEN LET rq2 == IF Severe(n)
                  THEN [rq1 EXCEPT !.scans = @ + 1,
                                   !.bg = IF Scan(requestString(rq.path, rq.payload)).threat
                                          THEN "create" ELSE "none"]
                  ELSE rq1
       IN Rejected(rq2, 429, "RATE_LIMIT_EXCEEDED")
  ELSE analyzeRequest(rq1)

\* faulty variant: the 403 branch does not return, so the request is tracked as well
checkBlockedIP_NoReturn(rq, blocked, rc) ==
  LET rq1 == [rq EXCEPT !.stages = Append(@, "block")]
      rc1 == trackRequestPatterns(rc, rq.ip, now)
  IN IF blocked
     THEN [req |-> Rejected(rq1, 403, "IP_BLOCKED"), rc |-> rc1]
     ELSE [req |-> rateStage(rq1, rc1[rq.ip].count), rc |-> rc1]

\* checkBlockedIP once the lookup has answered
checkBlockedIP(rq, blocked, rc) ==
  LET rq1 == [rq EXCEPT !.stages = Append(@, "block")] IN
  IF blocked
  THEN [req |-> Rejected(rq1, 403, "IP_BLOCKED"), rc |-> rc]
  ELSE LET rc1 == trackRequestPatterns(rc, rq.ip, now) IN
       [req |-> rateStage(rq1, rc1[rq.ip].count), rc |-> rc1]

\* a request arrives.  The health path skips the lookup and runs the rest of
\* the chain at once; any other path awaits isIPBlocked.
Arrive(r, rq) ==
  /\ req[r].pc \in {"idle", "done"} /\ req[r].bg # "create"
  /\ IF rq.path = HealthPath
     THEN \E out \in {checkBlockedIP(rq, FALSE, requestCounts)},
             w \in {Slide(window, rq.ip, now)} :
            /\ requestCounts' = out.rc
            /\ window' = w
            /\ req' = [req EXCEPT ![r] = [out.req EXCEPT !.seq = w[rq.ip].seen]]
     ELSE /\ req' = [req EXCEPT ![r] = [rq EXCEPT !.pc = "lookup"]]
          /\ UNCHANGED <<requestCounts, window>>
  /\ UNCHANGED <<now, ticks, blockedIPs, events, logs, alerts, call, called,
                 blocksDone, lastBlock, loginVars>>

\* a request of the address ip
Enter(r, ip, path, payload) ==
  Arrive(r, [IdleReq EXCEPT !.ip = ip, !.path = path, !.payload = payload,
                            !.at = now])

\* a request of a client: the gate keys it by getClientIP(req)
EnterFrom(r, client, path, payload) ==
  Arrive(r, [IdleReq EXCEPT !.client = client,
                            !.ip = AddressName(getClientIP(client)),
                            !.path = path, !.payload = payload, !.at = now])

\* BlockedIP.isBlocked answers (or fails): 403, or on through the chain
LookupDone(r, dbOk) ==
  /\ req[r].pc = "lookup"
  /\ \E out \in {checkBlockedIP([req[r] EXCEPT !.lookupErr = ~dbOk, !.at = 0],
                                  isIPBlocked(blockedIPs, req[r].ip, req[r].at, dbOk),
                                  requestCounts)} :
       LET tracked == Len(out.req.stages) > 1
           w == IF tracked THEN Slide(window, req[r].ip, now) ELSE window
       IN /\ req' = [req EXCEPT ![r] =
                       [out.req EXCEPT !.seq = IF tracked THEN w[req[r].ip].seen
                                                          ELSE 0]]
          /\ requestCounts' = out.rc
          /\ window' = w
  /\ UNCHANGED <<now, ticks, blockedIPs, events, logs, alerts, served, call,
                 called, blocksDone, lastBlock, loginVars>>

\* the IntrusionEvent analyzeHttpRequest creates for request rq
EventOf(rq) ==
  LET scan == Scan(requestString(rq.path, rq.payload)) IN
  [sourceIp |-> rq.ip, targetResource |-> rq.path,
   intrusionType |-> scan.intrusionType, severity |-> scan.severity,
   responseAction |-> "alert_sent", isBlocked |-> FALSE]

AlertOf(ev) == [type |-> ev.intrusionType, severity |-> ev.severity,
                sourceIp |-> ev.sourceIp]

LogOf(ev, user) == [user |-> user, ip |-> ev.sourceIp, severity |-> ev.severity,
                    status |-> "Active"]

\* what analyzeHttpRequest returns once IntrusionEvent.create has answered:
\* the event is stored, then Log.create and sendSecurityAlert run; any
\* rejection on the way is caught and turned into { threat: false }
analysisResult(rq, ok) ==
  IF ok /\ LogValid(rq.user)
  THEN Scan(requestString(rq.path, rq.payload))
  ELSE [threat |-> FALSE, intrusionType |-> "none", severity |-> "Medium"]

\* the stores after that part of analyzeHttpRequest
AnalysisWrites(rq, ok) ==
  /\ events' = IF ok THEN Append(events, EventOf(rq)) ELSE events
  /\ logs'   = IF ok /\ LogValid(rq.user)
               THEN Append(logs, LogOf(EventOf(rq), rq.user)) ELSE logs
  /\ alerts' = IF ok /\ LogValid(rq.user)
               THEN Append(alerts, AlertOf(EventOf(rq))) ELSE alerts

\* analyzeRequest after its await: 403 for High and Critical, next() otherwise
threatResponse(rq, analysis) ==
  IF analysis.threat /\ analysis.severity \in {"High", "Critical"}
  THEN [Rejected(rq, 403, "THREAT_DETECTED") EXCEPT
          !.threatType = analysis.intrusionType]
  ELSE Allowed(rq)

\* IntrusionEvent.create of the awaited analysis answers
CreateDone(r, ok) ==
  /\ req[r].pc = "create"
  /\ AnalysisWrites(req[r], ok)
  /\ req' = [req EXCEPT ![r] =
               threatResponse([req[r] EXCEPT !.evs = IF ok THEN @ + 1 ELSE @,
                                             !.createErr = ~ok],
                              analysisResult(req[r], ok))]
  /\ UNCHANGED <<now, ticks, blockedIPs, requestCounts, served, call, called,
                 blocksDone, lastBlock, window, loginVars>>

\* IntrusionEvent.create of the analysis started by the rate stage answers
BgCreateDone(r, ok) ==
  /\ req[r].bg = "create"
  /\ AnalysisWrites(req[r], ok)
  /\ req' = [req EXCEPT ![r].bg = "done", ![r].evs = IF ok THEN @ + 1 ELSE @,
                        ![r].createErr = ~ok]
  /\ UNCHANGED <<now, ticks, blockedIPs, requestCounts, served, call, called,
                 blocksDone, lastBlock, window, loginVars>>

\* ------------------------------------------------ the login flow (auth)
\* One registered user, "known"; any other email finds no user.
KnownEmail == "known"
UserId     == "u1"

NewAccount == [failedLoginAttempts |-> 0, accountLockedUntil |-> NullTime]

IdleLogin == [pc |-> "idle", ip |-> "ip1", email |-> KnownEmail, valid |-> FALSE,
              at |-> 0, doc |-> NewAccount, recentFailures |-> 0,
              expiresAt |-> NullTime, status |-> 0, writeErr |-> FALSE,
              countErr |-> FALSE, client |-> NoClient]
\* history fields of a login: writeErr (a detection write of its analysis
\* failed), countErr (its count query failed)

\* UserActivity model: user is required, so user: undefined fails validation
UserActivityValid(user) == user # NoUser

\* userSchema.methods.isLocked
isLocked(doc, t) ==
  doc.accountLockedUntil # NullTime /\ t < doc.accountLockedUntil

\* userSchema.methods.incrementFailedLogins, on the document the handler loaded
incrementFailedLogins(doc, t) ==
  LET n == doc.failedLoginAttempts + 1 IN
  [failedLoginAttempts |-> n,
   accountLockedUntil |-> IF n >= lockAfter THEN t + lockMs
                          ELSE doc.accountLockedUntil]

\* countRecentFailedLogins: failed login activities of the address that were
\* created at or after since = Date.now() - timeWindow; 0 on a storage error
RECURSIVE CountFailed(_, _, _)
CountFailed(acts, ip, since) ==
  IF acts = <<>> THEN 0
  ELSE (IF /\ Head(acts).activityType = "login" /\ Head(acts).status = "failed"
           /\ Head(acts).ipAddress = ip /\ Head(acts).createdAt >= since
        THEN 1 ELSE 0) + CountFailed(Tail(acts), ip, since)

\* faulty variant: a successful login of the address restarts the tally
RECURSIVE CountSinceSuccess(_, _, _)
CountSinceSuccess(acts, ip, since) ==
  IF acts = <<>> THEN 0
  ELSE LET last == acts[Len(acts)]
           rest == SubSeq(acts, 1, Len(acts) - 1)
       IN IF last.ipAddress = ip /\ last.status = "success" THEN 0
          ELSE (IF /\ last.activityType = "login" /\ last.status = "failed"
                   /\ last.ipAddress = ip /\ last.createdAt >= since
                THEN 1 ELSE 0) + CountSinceSuccess(rest, ip, since)

countRecentFailedLogins_ResetOnSuccess(acts, ip, since, ok) ==
  IF ok THEN CountSinceSuccess(acts, ip, since) ELSE 0

\* faulty variant: the createdAt filter is missing, so every failure counts
countRecentFailedLogins_NoWindow(acts, ip, since, ok) ==
  IF ok THEN CountFailed(acts, ip, 0 - timeWindow) ELSE 0

countRecentFailedLogins(acts, ip, since, ok) ==
  IF ok THEN CountFailed(acts, ip, since) ELSE 0

\* the threshold test of analyzeLoginAttempt
IsBruteForce(recentFailures) == recentFailures >= maxFailedAttempts

ActivityDoc(ip, status, t) ==
  [activityType |-> "login", status |-> status, ipAddress |-> ip, createdAt |-> t]

BruteForceEvent(ip, recentFailures) ==
  [sourceIp |-> ip, targetResource |-> "/auth/login",
   intrusionType |-> "brute_force", severity |-> "High",
   responseAction |-> "ip_blocked", isBlocked |-> TRUE,
   repeatCount |-> recentFailures]

\* faulty variant: an error of the analysis reaches the handler's outer catch
loginStatusAfterAnalysis_Rethrow(err) == IF err THEN 500 ELSE 401

\* analyzeLoginAttempt catches its own errors and exports.login wraps the call
\* in try / catch: whatever happened, the handler goes on to answer 401
loginStatusAfterAnalysis(err) == 401

\* res.status(status) ends the login; 401 is "Invalid credentials"
AnswerOf(l, lg, status, err) ==
  /\ login' = [login EXCEPT ![l] = [IdleLogin EXCEPT !.pc = "done",
                                                     !.ip = lg.ip,
                                                     !.email = lg.email,
                                                     !.status = status,
                                                     !.writeErr = err,
                                                     !.countErr = lg.countErr,
                                                     !.client = lg.client]]
  /\ failed' = IF status = 401 THEN [failed EXCEPT ![lg.ip] = @ + 1]
                ELSE failed

Answer(l, status, err) == AnswerOf(l, login[l], status, err)

\* POST /api/auth/login reaches exports.login: isIPBlocked is awaited first
LoginArrive(l, lg) ==
  /\ login[l].pc \in {"idle", "done"}
  /\ login' = [login EXCEPT ![l] = [lg EXCEPT !.pc = "lookup", !.at = now]]
  /\ attempts' = attempts + 1
  /\ UNCHANGED <<now, ticks, blockedIPs, events, logs, alerts, requestCounts,
                 served, req, call, called, blocksDone, lastBlock, window,
                 userActivity, account, failed>>

\* a login of the address ip
LoginStart(l, ip, email, valid) ==
  LoginArrive(l, [IdleLogin EXCEPT !.ip = ip, !.email = email, !.valid = valid])

\* a login of a client: exports.login keys it by getClientIp(req)
LoginFrom(l, client, email, valid) ==
  LoginArrive(l, [IdleLogin EXCEPT !.client = client,
                                   !.ip = AddressName(getClientIp(client)),
                                   !.email = email, !.valid = valid])

\* analyzeLoginAttempt(ip, email, false): countRecentFailedLogins is awaited
StartCount(l) == [login[l] EXCEPT !.pc = "count", !.at = now - timeWindow]

\* isIPBlocked answered: 403 when blocked, else User.findOne and lookupGeo
LoginLookupDone(l, dbOk) ==
  /\ login[l].pc = "lookup"
  /\ IF isIPBlocked(blockedIPs, login[l].ip, login[l].at, dbOk)
     THEN Answer(l, 403, FALSE)
     ELSE /\ login' = [login EXCEPT ![l].pc = "find", ![l].at = 0]
          /\ UNCHANGED failed
  /\ UNCHANGED <<now, ticks, blockedIPs, events, logs, alerts, requestCounts,
                 served, req, call, called, blocksDone, lastBlock, window,
                 userActivity, account, attempts>>

\* the user document is loaded.  No user: UserActivity.create fails validation
\* and the failure is swallowed, then the attempt is analyzed.  A locked
\* account answers 403.  A wrong password saves the incremented counter; the
\* right one saves the reset counter.
LoginFindDone(l) ==
  /\ login[l].pc = "find"
  /\ IF login[l].email # KnownEmail
     THEN /\ login' = [login EXCEPT ![l] = StartCount(l)]
          /\ userActivity' = IF UserActivityValid(NoUser)
                             THEN Append(userActivity,
                                         ActivityDoc(login[l].ip, "failed", now))
                             ELSE userActivity
          /\ UNCHANGED failed
     ELSE /\ UNCHANGED userActivity
          /\ IF isLocked(account, now)
             THEN Answer(l, 403, FALSE)
             ELSE /\ login' = [login EXCEPT ![l].pc =
                                  IF login[l].valid THEN "reset" ELSE "save",
                                ![l].doc =
                                  IF login[l].valid THEN NewAccount
                                  ELSE incrementFailedLogins(account, now)]
                  /\ UNCHANGED failed
  /\ UNCHANGED <<now, ticks, blockedIPs, events, logs, alerts, requestCounts,
                 served, req, call, called, blocksDone, lastBlock, window,
                 account, attempts>>

\* user.save() of incrementFailedLogins is stored; UserActivity.create follows
LoginSaveDone(l) ==
  /\ login[l].pc = "save"
  /\ account' = login[l].doc
  /\ login' = [login EXCEPT ![l].pc = "activity"]
  /\ UNCHANGED <<now, ticks, blockedIPs, events, logs, alerts, requestCounts,
                 served, req, call, called, blocksDone, lastBlock, window,
                 userActivity, attempts, failed>>

\* the failed login activity is stored (a storage error is swallowed); the
\* "Failed Login" Log that follows is stored in the same step; then the
\* attempt is analyzed
LoginActivityDone(l, ok) ==
  /\ login[l].pc = "activity"
  /\ userActivity' = IF ok /\ UserActivityValid(UserId)
                     THEN Append(userActivity,
                                 ActivityDoc(login[l].ip, "failed", now))
                     ELSE userActivity
  /\ logs' = IF ok /\ LogValid(UserId)
             THEN Append(logs, [user |-> UserId, ip |-> login[l].ip,
                                severity |-> "Medium", status |-> "Active"])
             ELSE logs
  /\ login' = [login EXCEPT ![l] = StartCount(l)]
  /\ UNCHANGED <<now, ticks, blockedIPs, events, alerts, requestCounts,
                 served, req, call, called, blocksDone, lastBlock, window,
                 account, attempts, failed>>

\* the count answered: at the threshold IntrusionEvent.create is awaited,
\* below it the login is answered 401
LoginCountDone(l, ok) ==
  /\ login[l].pc = "count"
  /\ LET n == countRecentFailedLogins(userActivity, login[l].ip, login[l].at, ok)
     IN IF IsBruteForce(n)
        THEN /\ login' = [login EXCEPT ![l].pc = "event", ![l].recentFailures = n,
                                       ![l].at = 0]
             /\ UNCHANGED failed
        ELSE AnswerOf(l, [login[l] EXCEPT !.countErr = ~ok],
                      loginStatusAfterAnalysis(FALSE), FALSE)
  /\ UNCHANGED <<now, ticks, blockedIPs, events, logs, alerts, requestCounts,
                 served, req, call, called, blocksDone, lastBlock, window,
                 userActivity, account, attempts>>

\* the brute_force IntrusionEvent is stored and BlockedIP.blockIP is called
\* (its expiresAt computed now); a storage error ends the analysis
LoginEventDone(l, ok) ==
  /\ login[l].pc = "event"
  /\ IF ok
     THEN /\ events' = Append(events,
                              BruteForceEvent(login[l].ip, login[l].recentFailures))
          /\ login' = [login EXCEPT ![l].pc = "block",
                                    ![l].expiresAt = ExpiresAt(blockDuration, now),
                                    ![l].at = now]
          /\ UNCHANGED failed
     ELSE /\ UNCHANGED events
          /\ Answer(l, loginStatusAfterAnalysis(TRUE), TRUE)
  /\ UNCHANGED <<now, ticks, blockedIPs, logs, alerts, requestCounts,
                 served, req, call, called, blocksDone, lastBlock, window,
                 userActivity, account, attempts>>

\* the upsert of blockIP is stored; then Log.create({user: null}) fails
\* validation, which ends the analysis before sendSecurityAlert; the login
\* is answered 401 in every case
LoginBlockDone(l, ok) ==
  /\ login[l].pc = "block"
  /\ IF ok
     THEN /\ blockedIPs' = blockIP(blockedIPs, login[l].ip, "brute_force_attack",
                                   "automatic", NoUser, login[l].expiresAt)
          /\ blocksDone' = [blocksDone EXCEPT ![login[l].ip] = @ + 1]
          /\ lastBlock' = [lastBlock EXCEPT ![login[l].ip] =
                             [set |-> TRUE, at |-> login[l].at, done |-> now,
                              duration |-> blockDuration, unblocked |-> FALSE]]
          /\ logs' = IF LogValid(NoUser)
                     THEN Append(logs, [user |-> NoUser, ip |-> login[l].ip,
                                        severity |-> "High", status |-> "Blocked"])
                     ELSE logs
          /\ alerts' = IF LogValid(NoUser)
                       THEN Append(alerts, [type |-> "Brute Force Attack",
                                            severity |-> "High",
                                            sourceIp |-> login[l].ip])
                       ELSE alerts
     ELSE UNCHANGED <<blockedIPs, blocksDone, lastBlock, logs, alerts>>
  /\ LET err == ~ok \/ ~LogValid(NoUser) IN
       Answer(l, loginStatusAfterAnalysis(err), err)
  /\ UNCHANGED <<now, ticks, events, requestCounts, served, req, call, called,
                 window, userActivity, account, attempts>>

\* user.save() of resetFailedLogins is stored; the successful activity is
\* stored in the same step, analyzeLoginAttempt(ip, email, true) changes
\* nothing, and the login is answered 200
LoginResetDone(l, ok) ==
  /\ login[l].pc = "reset"
  /\ account' = login[l].doc
  /\ userActivity' = IF ok /\ UserActivityValid(UserId)
                     THEN Append(userActivity,
                                 ActivityDoc(login[l].ip, "success", now))
                     ELSE userActivity
  /\ Answer(l, 200, FALSE)
  /\ UNCHANGED <<now, ticks, blockedIPs, events, logs, alerts, requestCounts,
                 served, req, call, called, blocksDone, lastBlock, window,
                 attempts>>

\* ------------------------------------------------------------ specifications
Init ==
  /\ now = 0 /\ ticks = 0
  /\ blockedIPs = <<>> /\ events = <<>> /\ logs = <<>> /\ alerts = <<>>
  /\ requestCounts = [ip \in IPs |-> NoEntry]
  /\ served = 0
  /\ req = [r \in ReqIds |-> IdleReq]
  /\ call = [c \in CallIds |-> IdleCall]
  /\ called = 0
  /\ blocksDone = [ip \in IPs |-> 0]
  /\ lastBlock = [ip \in IPs |-> NoBlock]
  /\ window = [ip \in IPs |-> NoWindow]
  /\ login = [l \in LoginIds |-> IdleLogin]
  /\ userActivity = <<>>
  /\ account = NewAccount
  /\ attempts = 0
  /\ failed = [ip \in IPs |-> 0]

\* --- Spec: the gate with the block registry and storage errors; two
\*     requests in flight, a few requests per behaviour, within one millisecond
Paths    == {"/api/users", HealthPath}
Payloads == {Clean, Sqli}

Next ==
  \/ \E r \in ReqIds, path \in Paths, payload \in Payloads :
       /\ served < MaxRequests
       /\ served' = served + 1
       /\ Enter(r, "ip1", path, payload)
  \/ \E r \in ReqIds, dbOk \in BOOLEAN : LookupDone(r, dbOk)
  \/ \E r \in ReqIds, ok \in BOOLEAN : CreateDone(r, ok)
  \/ \E d \in {NullDuration, 1} :
       /\ called < MaxBlocks
       /\ CallBlockIP(1, "ip1", "manual_block", "manual", "admin", d)
  \/ \E ok \in BOOLEAN : BlockIPDone(1, ok)

Spec == Init /\ [][Next]_vars

\* --- SpecLoad: one address sends request after request; the window is
\*     counted up from an empty Map past both thresholds
MaxEvents == 2   \* IntrusionEvent documents per behaviour

Admit(ip, path, payload) ==
  /\ requestCounts[ip].count < 2 * MAX_REQUESTS_PER_MINUTE + MaxOver
  /\ Scan(requestString(path, payload)).threat => Len(events) < MaxEvents

NextLoad ==
  \/ \E path \in {"/api/users", "/api/auth/login"}, payload \in {Clean, Sqli} :
       /\ Admit("ip1", path, payload)
       /\ UNCHANGED served
       /\ Enter(1, "ip1", path, payload)
  \/ \E dbOk \in BOOLEAN : LookupDone(1, dbOk)
  \/ \E ok \in BOOLEAN : CreateDone(1, ok)
  \/ \E ok \in BOOLEAN : BgCreateDone(1, ok)
  \/ /\ called < MaxBlocks
     /\ CallBlockIP(1, "ip1", "manual_block", "manual", "admin", NullDuration)
  \/ \E ok \in BOOLEAN : BlockIPDone(1, ok)

SpecLoad == Init /\ [][NextLoad]_vars

\* --- SpecRate: the rate stage alone, with the clock: clean requests of one
\*     address, counted from an empty Map
NextRate ==
  \/ \E d \in {REQUEST_WINDOW, REQUEST_WINDOW + 1} : Tick(d)
  \/ \E path \in {"/api/users", HealthPath} :
       /\ requestCounts["ip1"].count < MAX_REQUESTS_PER_MINUTE + MaxOver
       /\ UNCHANGED served
       /\ Enter(1, "ip1", path, Clean)
  \/ LookupDone(1, TRUE)

SpecRate == Init /\ [][NextRate]_vars

\* --- SpecBlock: the BlockedIP statics called directly, two calls in flight,
\*     with the clock (one minute is the shortest block)
Minute == 60 * 1000

NextBlock ==
  \/ \E d \in {Minute - 1, Minute} : Tick(d)
  \/ \E c \in CallIds, d \in {NullDuration, 0, 1} :
       /\ called < MaxCalls
       /\ CallBlockIP(c, "ip1", "manual_block", "manual", "admin", d)
  \/ \E c \in CallIds, ok \in BOOLEAN : BlockIPDone(c, ok)
  \/ \E c \in CallIds : called < MaxCalls /\ CallUnblockIP(c, "ip1")
  \/ \E c \in CallIds, ok \in BOOLEAN : UnblockIPDone(c, ok)
  \/ \E c \in CallIds : called < MaxCalls /\ CallCleanup(c)
  \/ \E c \in CallIds, ok \in BOOLEAN : CleanupDone(c, ok)

SpecBlock == Init /\ [][NextBlock]_vars

\* --- SpecLogin: logins of one address, two in flight, no storage errors
\*     but the swallowed ones of the activity log; an administrator may
\*     unblock the address
NextLogin ==
  \/ \E l \in LoginIds, email \in {KnownEmail, "unknown"}, valid \in BOOLEAN :
       /\ attempts < MaxLogins
       /\ LoginStart(l, "ip1", email, valid)
  \/ \E l \in LoginIds : LoginLookupDone(l, TRUE)
  \/ \E l \in LoginIds : LoginFindDone(l)
  \/ \E l \in LoginIds : LoginSaveDone(l)
  \/ \E l \in LoginIds : LoginActivityDone(l, TRUE)
  \/ \E l \in LoginIds : LoginCountDone(l, TRUE)
  \/ \E l \in LoginIds : LoginEventDone(l, TRUE)
  \/ \E l \in LoginIds : LoginBlockDone(l, TRUE)
  \/ \E l \in LoginIds : LoginResetDone(l, TRUE)
  \/ called < MaxBlocks /\ CallUnblockIP(1, "ip1")
  \/ UnblockIPDone(1, TRUE)

SpecLogin == Init /\ [][NextLogin]_vars

\* --- SpecFail: one request and one login at a time, every detection write
\*     (and the count) may fail
NextFail ==
  \/ \E payload \in {Sqli, Xss} :
       /\ served < MaxRequests
       /\ served' = served + 1
       /\ Enter(1, "ip1", "/api/users", payload)
  \/ LookupDone(1, TRUE)
  \/ \E ok \in BOOLEAN : CreateDone(1, ok)
  \/ /\ attempts < MaxLogins
     /\ LoginStart(1, "ip1", KnownEmail, FALSE)
  \/ LoginLookupDone(1, TRUE)
  \/ LoginFindDone(1)
  \/ LoginSaveDone(1)
  \/ \E ok \in BOOLEAN : LoginActivityDone(1, ok)
  \/ \E ok \in BOOLEAN : LoginCountDone(1, ok)
  \/ \E ok \in BOOLEAN : LoginEventDone(1, ok)
  \/ \E ok \in BOOLEAN : LoginBlockDone(1, ok)

SpecFail == Init /\ [][NextFail]_vars

\* --- SpecScan: the gate alone on a scanned path: requests of one address
\*     with clean, SQL, XSS and mixed content, two in flight; the event
\*     write may fail
ScanPayloads == {Clean, Sqli, QuoteOr, Xss, SqlXss}

NextScan ==
  \/ \E r \in ReqIds, payload \in ScanPayloads :
       /\ served < MaxRequests
       /\ served' = served + 1
       /\ Enter(r, "ip1", "/api/users", payload)
  \/ \E r \in ReqIds : LookupDone(r, TRUE)
  \/ \E r \in ReqIds, ok \in BOOLEAN : CreateDone(r, ok)

SpecScan == Init /\ [][NextScan]_vars

\* --- SpecWindow: logins of one address, one after the other, with the
\*     clock stepping by the length of the brute-force window; the count
\*     query may fail
NextWindow ==
  \/ \E d \in {timeWindow, timeWindow + 1} : Tick(d)
  \/ \E email \in {KnownEmail, "unknown"}, valid \in BOOLEAN :
       /\ attempts < MaxLogins
       /\ LoginStart(1, "ip1", email, valid)
  \/ LoginLookupDone(1, TRUE)
  \/ LoginFindDone(1)
  \/ LoginSaveDone(1)
  \/ LoginActivityDone(1, TRUE)
  \/ \E ok \in BOOLEAN : LoginCountDone(1, ok)
  \/ LoginEventDone(1, TRUE)
  \/ LoginBlockDone(1, TRUE)
  \/ LoginResetDone(1, TRUE)

SpecWindow == Init /\ [][NextWindow]_vars

\* --- SpecServe: the server as it is wired: logins arrive, their awaits
\*     complete, time passes; no timer is set and nothing calls
\*     performMaintenance or cleanupExpiredBlocks.  The event loop runs every
\*     pending completion (weak fairness); clients need not send anything
Hour == 60 * Minute

ServeSteps ==
  \/ LoginLookupDone(1, TRUE)
  \/ LoginFindDone(1)
  \/ LoginSaveDone(1)
  \/ LoginActivityDone(1, TRUE)
  \/ LoginCountDone(1, TRUE)
  \/ LoginEventDone(1, TRUE)
  \/ LoginBlockDone(1, TRUE)
  \/ LoginResetDone(1, TRUE)
  \/ \E d \in {Hour - 1, Hour} : Tick(d)

NextServe ==
  \/ \E valid \in BOOLEAN :
       /\ attempts < MaxLogins
       /\ LoginStart(1, "ip1", KnownEmail, valid)
  \/ ServeSteps

SpecServe == Init /\ [][NextServe]_vars /\ WF_vars(ServeSteps)

\* --- SpecIdle: the rate stage with long pauses: a few clean requests of two
\*     addresses and the clock; the Map is touched only while a request is
\*     tracked (no timer sweeps it)
NextIdle ==
  \/ \E d \in {REQUEST_WINDOW + 1, 2 * REQUEST_WINDOW + 1} : Tick(d)
  \/ \E r \in ReqIds, ip \in IPs, path \in {"/api/users", HealthPath} :
       /\ served < MaxRequests
       /\ served' = served + 1
       /\ Enter(r, ip, path, Clean)
  \/ \E r \in ReqIds : LookupDone(r, TRUE)

SpecIdle == Init /\ [][NextIdle]_vars

\* --- SpecClient: clients with their transport addresses: each logs in
\*     (wrong password) and sends requests through the gate; no storage
\*     errors, no clock
NextClient ==
  \/ \E c \in Clients :
       /\ attempts < MaxLogins
       /\ LoginFrom(1, c, KnownEmail, FALSE)
  \/ LoginLookupDone(1, TRUE)
  \/ LoginFindDone(1)
  \/ LoginSaveDone(1)
  \/ LoginActivityDone(1, TRUE)
  \/ LoginCountDone(1, TRUE)
  \/ LoginEventDone(1, TRUE)
  \/ LoginBlockDone(1, TRUE)
  \/ \E c \in Clients, path \in {"/api/users", HealthPath} :
       /\ served < MaxRequests
       /\ served' = served + 1
       /\ EnterFrom(1, c, path, Clean)
  \/ LookupDone(1, TRUE)

SpecClient == Init /\ [][NextClient]_vars

\* --- SpecAdmin: failed logins of one address, one at a time, while an
\*     administrator blocks the address permanently; no storage errors
NextAdmin ==
  \/ /\ attempts < MaxLogins
     /\ LoginStart(1, "ip1", KnownEmail, FALSE)
  \/ LoginLookupDone(1, TRUE)
  \/ LoginFindDone(1)
  \/ LoginSaveDone(1)
  \/ LoginActivityDone(1, TRUE)
  \/ LoginCountDone(1, TRUE)
  \/ LoginEventDone(1, TRUE)
  \/ LoginBlockDone(1, TRUE)
  \/ /\ called < MaxBlocks
     /\ CallBlockIP(1, "ip1", "manual_block", "manual", "admin", NullDuration)
  \/ BlockIPDone(1, TRUE)

SpecAdmin == Init /\ [][NextAdmin]_vars

\* ------------------------------------------------------------------ claims
ThreatOf(rq) == Scan(requestString(rq.path, rq.payload))

ReachedRate(rq) == Len(rq.stages) > 1 /\ rq.stages[2] = "rate"

\* C1: a request on a non-exempt path that passed the block stage and the rate
\* stage and whose content matches a SQL-injection signature is answered 403
\* THREAT_DETECTED with threatType sql_injection, and its IntrusionEvent is
\* recorded (here: whenever storing the event did not fail).
C1_SqlInjectionRejected ==
  \A r \in ReqIds :
    ( /\ req[r].pc = "done"
      /\ req[r].path \notin skipPaths
      /\ req[r].stages = <<"block", "rate", "content">>
      /\ ThreatOf(req[r]).intrusionType = "sql_injection"
      /\ ~req[r].createErr )
    => /\ req[r].status = 403
       /\ req[r].code = "THREAT_DETECTED"
       /\ req[r].threatType = "sql_injection"
       /\ req[r].evs = 1

\* C2: on any path but the health check, a request whose lookup finds the
\* address blocked is answered 403 IP_BLOCKED in that step, and no later stage
\* runs for it: requestCounts and the events are left as they were, nothing is
\* scanned and no analysis is started.
C2_BlockedBypassesStages ==
  [][\A r \in ReqIds :
       ( /\ req[r].pc = "lookup" /\ req'[r].pc # "lookup"
         /\ ~req'[r].lookupErr
         /\ isBlocked(blockedIPs, req[r].ip, req[r].at) )
       => /\ req'[r].pc = "done"
          /\ req'[r].status = 403 /\ req'[r].code = "IP_BLOCKED"
          /\ req'[r].responses = 1
          /\ req'[r].stages = <<"block">>
          /\ req'[r].scans = 0 /\ req'[r].evs = 0 /\ req'[r].bg = "none"
          /\ requestCounts' = requestCounts
          /\ events' = events]_vars

C2_Witness ==
  \E r \in ReqIds : req[r].pc = "done" /\ req[r].code = "IP_BLOCKED"
                    /\ req[r].path # HealthPath

\* C8: a request whose block lookup failed with a storage error is treated as
\* not blocked: it is never answered IP_BLOCKED nor with an error status, and
\* it went on to the rate stage.
C8_LookupFailsOpen ==
  \A r \in ReqIds :
    (req[r].pc # "idle" /\ req[r].lookupErr)
    => /\ req[r].code # "IP_BLOCKED"
       /\ req[r].status \in {0, 429}
          \/ (req[r].status = 403 /\ req[r].code = "THREAT_DETECTED")
       /\ ReachedRate(req[r])

C8_Witness ==
  \E r \in ReqIds : /\ req[r].pc = "done" /\ req[r].lookupErr
                    /\ isBlocked(blockedIPs, req[r].ip, now)
                    /\ req[r].code = "ALLOWED"

\* C9: a request has no response while it is in the chain and exactly one when
\* it is done, one of ALLOWED, 403 IP_BLOCKED, 429 RATE_LIMIT_EXCEEDED and 403
\* THREAT_DETECTED; the stages that ran are block, rate, content in this order,
\* cut after the stage that rejected.
C9_OneOutcomeInOrder ==
  \A r \in ReqIds :
    /\ req[r].pc \in {"idle", "lookup", "create"} => req[r].responses = 0
    /\ req[r].pc = "done" =>
         /\ req[r].responses = 1
         /\ \/ req[r].code = "ALLOWED" /\ req[r].status = 0
               /\ req[r].stages = <<"block", "rate", "content">>
            \/ req[r].code = "IP_BLOCKED" /\ req[r].status = 403
               /\ req[r].stages = <<"block">>
            \/ req[r].code = "RATE_LIMIT_EXCEEDED" /\ req[r].status = 429
               /\ req[r].stages = <<"block", "rate">>
            \/ req[r].code = "THREAT_DETECTED" /\ req[r].status = 403
               /\ req[r].stages = <<"block", "rate", "content">>
    /\ \E n \in 0..3 : req[r].stages = SubSeq(<<"block", "rate", "content">>, 1, n)

C9_Witness ==
  \E r \in ReqIds : /\ req[r].pc = "done" /\ req[r].code = "RATE_LIMIT_EXCEEDED"
                    /\ req[r].bg = "done" /\ req[r].evs = 1

\* C10 as claimed: every finished request from a non-blocked address on a
\* non-exempt path whose content matches a signature has exactly one
\* IntrusionEvent, whatever the rate stage decided (storage errors set aside).
C10_ExactlyOneEvent ==
  \A r \in ReqIds :
    ( /\ req[r].pc = "done" /\ req[r].bg # "create"
      /\ req[r].code # "IP_BLOCKED"
      /\ req[r].path \notin skipPaths
      /\ ThreatOf(req[r]).threat
      /\ ~req[r].createErr )
    => req[r].evs = 1

\* C10 amended: such a request never has two IntrusionEvents; it has one when
\* the rate stage let it pass or found the count past twice the limit, and
\* none when the count was over the limit but not past twice the limit.
C10_AtMostOneEvent ==
  \A r \in ReqIds :
    /\ req[r].evs <= 1
    /\ ( /\ req[r].pc = "done" /\ req[r].bg # "create"
         /\ req[r].code # "IP_BLOCKED"
         /\ req[r].path \notin skipPaths
         /\ ThreatOf(req[r]).threat
         /\ ~req[r].createErr )
       => (req[r].evs = 1 <=> (~Exceeded(req[r].nth) \/ Severe(req[r].nth)))

C10_Witness ==
  \E r \in ReqIds : /\ req[r].pc = "done" /\ req[r].bg = "done"
                    /\ req[r].path \notin skipPaths
                    /\ Severe(req[r].nth) /\ req[r].evs = 1

\* C5: a request that reached the rate stage is answered 429
\* RATE_LIMIT_EXCEEDED exactly when it is the 101st or a later request of its
\* address in the address's current window.
C5_RejectedIffOverLimit ==
  \A r \in ReqIds :
    ReachedRate(req[r]) =>
      /\ req[r].seq >= 1
      /\ (req[r].code = "RATE_LIMIT_EXCEEDED" /\ req[r].status = 429)
           <=> req[r].seq >= MAX_REQUESTS_PER_MINUTE + 1

C5_Witness ==
  \E r \in ReqIds : /\ req[r].code = "RATE_LIMIT_EXCEEDED"
                    /\ req[r].seq = MAX_REQUESTS_PER_MINUTE + 1

\* C6: when a request reaches the rate stage more than REQUEST_WINDOW after the
\* start of its address's window, it starts a new window with count 1 and is
\* not answered 429; and no request moves the start of a window that goes on.
C6_WindowResets ==
  [][\A r \in ReqIds :
       (~ReachedRate(req[r]) /\ ReachedRate(req'[r])) =>
         LET ip == req'[r].ip IN
         IF window[ip].seen > 0 /\ now - window[ip].start > REQUEST_WINDOW
         THEN /\ requestCounts'[ip] = [count |-> 1, firstRequest |-> now]
              /\ req'[r].code # "RATE_LIMIT_EXCEEDED"
         ELSE window[ip].seen > 0 =>
                /\ requestCounts'[ip].firstRequest = window[ip].start
                /\ requestCounts'[ip].count = window[ip].seen + 1]_vars

C6_Witness ==
  /\ window["ip1"].prev > MAX_REQUESTS_PER_MINUTE
  /\ window["ip1"].seen = 1
  /\ \E r \in ReqIds : req[r].pc = "done" /\ req[r].seq = 1
                       /\ req[r].code = "ALLOWED"

DocsOf(ip) == {i \in DOMAIN blockedIPs : blockedIPs[i].ipAddress = ip}

\* C7: after n completed blockIP calls for an address, in any interleaving,
\* the collection holds exactly one document for the address and its
\* violationCount is n; before the first call it holds none.
C7_OneRecordCountsCalls ==
  \A ip \in IPs :
    IF blocksDone[ip] = 0
    THEN DocsOf(ip) = {}
    ELSE /\ Cardinality(DocsOf(ip)) = 1
         /\ \A i \in DocsOf(ip) : blockedIPs[i].violationCount = blocksDone[ip]

C7_Witness ==
  /\ blocksDone["ip1"] >= 2
  /\ \E c \in CallIds : call[c].pc = "pending" /\ call[c].op = "blockIP"
                        /\ call[c].ip = "ip1"

\* C4: after blockIP(A, reason, duration D) made at time T, with no later
\* blockIP or unblockIP of A, isBlocked(A) is true at every time before T + D
\* and false at every time from T + D on.
C4_BoundaryExactExpiry ==
  \A ip \in IPs :
    (lastBlock[ip].set /\ lastBlock[ip].duration # NullDuration)
    => (isBlocked(blockedIPs, ip, now)
          <=> now < lastBlock[ip].at + lastBlock[ip].duration * Minute)

\* C3: five failed logins from one address within 15 minutes leave exactly one
\* brute_force IntrusionEvent and exactly one BlockRegistry record of the
\* address with reason brute_force_attack, and the address is blocked
BruteForceEvents(ip) ==
  {i \in 1..Len(events) : /\ events[i].intrusionType = "brute_force"
                          /\ events[i].sourceIp = ip}

BruteForceDocs(ip) ==
  {i \in 1..Len(blockedIPs) : /\ blockedIPs[i].ipAddress = ip
                              /\ blockedIPs[i].reason = "brute_force_attack"}

LoginsQuiet == \A l \in LoginIds : login[l].pc \in {"idle", "done"}

C3_FiveFailuresBlockOnce ==
  \A ip \in IPs :
    (failed[ip] >= maxFailedAttempts /\ LoginsQuiet)
      => /\ Cardinality(BruteForceEvents(ip)) = 1
         /\ Cardinality(BruteForceDocs(ip)) = 1
         /\ isBlocked(blockedIPs, ip, now)

\* C11: a request on a scanned path that passed the block and rate stages and
\* whose content matches an XSS pattern and no SQL pattern has its
\* IntrusionEvent (xss_attack, Medium) stored and goes on to the application
OnlyXss(rq) ==
  /\ AnyPattern(xssPatterns, requestString(rq.path, rq.payload))
  /\ ~AnyPattern(sqlInjectionPatterns, requestString(rq.path, rq.payload))

XssEventsOf(ip) ==
  {i \in DOMAIN events : /\ events[i].sourceIp = ip
                         /\ events[i].intrusionType = "xss_attack"
                         /\ events[i].severity = "Medium"}

C11_XssLoggedAndAllowed ==
  \A r \in ReqIds :
    ( /\ req[r].pc = "done"
      /\ req[r].path \notin skipPaths
      /\ req[r].stages = <<"block", "rate", "content">>
      /\ OnlyXss(req[r])
      /\ ~req[r].createErr )
    => /\ req[r].code = "ALLOWED" /\ req[r].status = 0
       /\ req[r].evs = 1
       /\ XssEventsOf(req[r].ip) # {}

C11_Witness ==
  \E r \in ReqIds : /\ req[r].pc = "done" /\ req[r].payload = Xss
                    /\ req[r].code = "ALLOWED" /\ req[r].evs = 1

\* C12: a request on an exempt path (health check, login, signup) is never
\* scanned, whatever its payload and the history of its address: no scan
\* runs for it, no analysis is started for it and no event is stored for it
C12_ExemptNeverScanned ==
  \A r \in ReqIds :
    req[r].path \in skipPaths
    => /\ req[r].scans = 0
       /\ req[r].bg = "none"
       /\ req[r].evs = 0

\* C13: once a brute_force_attack record exists for an address, no step
\* stores a further brute_force IntrusionEvent for that address (all logins
\* of this specification fall into one 15 minute window), whatever the
\* interleaving of the logins, also after the address was unblocked
C13_NoSecondBruteForceEvent ==
  [][\A ip \in IPs :
       BruteForceDocs(ip) # {}
       => Cardinality(BruteForceEvents(ip)') = Cardinality(BruteForceEvents(ip))]_vars

\* C14: unblockIP of an address without a record changes nothing: it resolves
\* to null, the collection is left as it was (no record is created) and
\* the address is still not blocked
C14_UnblockUnknownIsNoOp ==
  [][\A c \in CallIds :
       ( /\ call[c].pc = "pending" /\ call[c].op = "unblockIP"
         /\ call'[c].pc = "idle"
         /\ DocsOf(call[c].ip) = {} )
       => /\ unblockIPResult(blockedIPs, call[c].ip) = NoDoc
          /\ blockedIPs' = blockedIPs
          /\ DocsOf(call[c].ip)' = {}
          /\ ~isBlocked(blockedIPs', call[c].ip, now')]_vars

C14_Witness ==
  /\ lastBlock["ip1"].unblocked
  /\ DocsOf("ip1") = {}

\* C15: unblockIP of an address with a record sets isActive to false and
\* leaves the record in place with its violationCount, reason and expiresAt;
\* from then until the next completed blockIP of the address isBlocked is
\* false, for permanent blocks too
C15_UnblockDeactivatesOnly ==
  [][/\ \A c \in CallIds :
          ( /\ call[c].pc = "pending" /\ call[c].op = "unblockIP"
            /\ call'[c].pc = "idle"
            /\ DocsOf(call[c].ip) # {}
            /\ lastBlock'[call[c].ip].unblocked )
          => /\ Len(blockedIPs') = Len(blockedIPs)
             /\ \A i \in DOMAIN blockedIPs :
                  blockedIPs'[i] =
                    IF blockedIPs[i].ipAddress = call[c].ip
                    THEN [blockedIPs[i] EXCEPT !.isActive = FALSE]
                    ELSE blockedIPs[i]
     /\ \A ip \in IPs :
          lastBlock'[ip].unblocked => ~isBlocked(blockedIPs', ip, now')]_vars

C15_Witness ==
  /\ lastBlock["ip1"].unblocked
  /\ \E i \in DocsOf("ip1") : /\ blockedIPs[i].expiresAt = NullTime
                              /\ ~blockedIPs[i].isActive
                              /\ blockedIPs[i].violationCount >= 1

\* C16: a sweep at time t (the present, or the time a pending
\* cleanupExpiredBlocks took) deactivates exactly the active records whose
\* expiresAt is not null and at or before t, returns their number, leaves
\* every other record as it is, so that isBlocked is the same for every
\* address at t and now; a second sweep at t changes nothing and returns 0
Due(d, t) == d.isActive /\ d.expiresAt # NullTime /\ d.expiresAt <= t

SweepTimes ==
  {now} \cup {call[c].at : c \in {k \in CallIds : call[k].op = "cleanup"}}

C16_SweepExactIdempotent ==
  \A t \in SweepTimes :
    LET swept == cleanupExpiredBlocks(blockedIPs, t) IN
    /\ Len(swept) = Len(blockedIPs)
    /\ \A i \in DOMAIN blockedIPs :
         swept[i] = IF Due(blockedIPs[i], t)
                    THEN [blockedIPs[i] EXCEPT !.isActive = FALSE]
                    ELSE blockedIPs[i]
    /\ cleanupResult(blockedIPs, t)
         = Cardinality({i \in DOMAIN blockedIPs : Due(blockedIPs[i], t)})
    /\ \A ip \in IPs :
         /\ isBlocked(swept, ip, t) = isBlocked(blockedIPs, ip, t)
         /\ isBlocked(swept, ip, now) = isBlocked(blockedIPs, ip, now)
    /\ cleanupExpiredBlocks(swept, t) = swept
    /\ cleanupResult(swept, t) = 0

C16_Witness ==
  \E i \in DocsOf("ip1") : /\ lastBlock["ip1"].set
                           /\ ~blockedIPs[i].isActive
                           /\ blockedIPs[i].expiresAt = now

\* C17: processing requests in the gate never changes the BlockedIP
\* collection, repeated High severity matches of one address included, and
\* a later request of that address with such a match is answered 403
\* THREAT_DETECTED again, not IP_BLOCKED
HighEventsOf(ip) ==
  {i \in DOMAIN events : events[i].sourceIp = ip /\ events[i].severity = "High"}

C17_ContentNeverBlocks ==
  /\ blockedIPs = <<>>
  /\ \A r \in ReqIds :
       ( /\ req[r].pc = "done"
         /\ req[r].path \notin skipPaths
         /\ ThreatOf(req[r]).severity = "High" /\ ThreatOf(req[r]).threat
         /\ ~req[r].createErr
         /\ Cardinality(HighEventsOf(req[r].ip)) >= 2 )
       => /\ req[r].code # "IP_BLOCKED"
          /\ req[r].status = 403 /\ req[r].code = "THREAT_DETECTED"

\* C18: a request whose count is past twice the limit is answered 429, and
\* the analysis it started can leave the address blocked automatically: once
\* that analysis has found a threat and stored its event, the address has an
\* active automatic block
AutoBlocksOf(ip) ==
  {i \in DocsOf(ip) : blockedIPs[i].blockType = "automatic" /\ blockedIPs[i].isActive}

C18_EscalationBlocks ==
  \A r \in ReqIds :
    ( /\ req[r].pc = "done" /\ Severe(req[r].nth)
      /\ req[r].bg = "done" /\ ~req[r].createErr )
    => /\ req[r].status = 429 /\ req[r].code = "RATE_LIMIT_EXCEEDED"
       /\ AutoBlocksOf(req[r].ip) # {}

\* C19: with no login analysis in flight, every stored IntrusionEvent of
\* severity High or Critical and every automatic block has a security alert
\* of its address (and severity) handed to the notification service
C19_HighEventsNotified ==
  LoginsQuiet =>
    /\ \A i \in DOMAIN events :
         events[i].severity \in {"High", "Critical"}
         => \E j \in DOMAIN alerts : /\ alerts[j].sourceIp = events[i].sourceIp
                                     /\ alerts[j].severity = events[i].severity
    /\ \A i \in DOMAIN blockedIPs :
         blockedIPs[i].blockType = "automatic"
         => \E j \in DOMAIN alerts : alerts[j].sourceIp = blockedIPs[i].ipAddress

\* C20: a request whose IntrusionEvent / Log / alert write failed gets no
\* error response: it goes on to the application with exactly one outcome;
\* and a failed login whose analysis met a failing write is answered 401
C20_WriteFailureKeepsRequest ==
  /\ \A r \in ReqIds :
       (req[r].pc = "done" /\ req[r].createErr)
       => /\ req[r].code = "ALLOWED" /\ req[r].status = 0
          /\ req[r].responses = 1
  /\ \A l \in LoginIds :
       (login[l].pc = "done" /\ login[l].writeErr) => login[l].status = 401

C20_Witness ==
  /\ \E l \in LoginIds : /\ login[l].pc = "done" /\ login[l].writeErr
                         /\ login[l].status = 401
  /\ BruteForceEvents("ip1") = {}
  /\ \E r \in ReqIds : req[r].pc = "done" /\ req[r].createErr
                       /\ req[r].payload = Sqli

\* C21: a successful login erases nothing: no step removes or changes a
\* stored login activity, and a failed login whose count query is answered
\* escalates exactly when at least maxFailedAttempts failed-login records of
\* its address lie in the window, whatever successes lie among them; so four
\* failures, a success and one more failure escalate as five failures do
FailedRecords(ip, since) ==
  {i \in DOMAIN userActivity : /\ userActivity[i].activityType = "login"
                               /\ userActivity[i].status = "failed"
                               /\ userActivity[i].ipAddress = ip
                               /\ userActivity[i].createdAt >= since}

HasSql(rq) == AnyPattern(sqlInjectionPatterns, requestString(rq.path, rq.payload))
HasXss(rq) == AnyPattern(xssPatterns, requestString(rq.path, rq.payload))

C22_SqlBeforeXss ==
  [][\A r \in ReqIds :
       /\ ( /\ req[r].pc = "lookup" /\ req'[r].pc # "lookup"
            /\ req'[r].scans = 1 )
          => /\ req'[r].pc = "create" <=> (HasSql(req'[r]) \/ HasXss(req'[r]))
             /\ req'[r].pc # "create"
                  => /\ req'[r].code = "ALLOWED" /\ req'[r].evs = 0
                     /\ events' = events
       /\ ( /\ req[r].pc = "create" /\ req'[r].pc = "done"
            /\ ~req'[r].createErr )
          => /\ Len(events') = Len(events) + 1
             /\ SubSeq(events', 1, Len(events)) = events
             /\ LET e == events'[Len(events')] IN
                  /\ e.sourceIp = req[r].ip
                  /\ IF HasSql(req[r])
                     THEN e.intrusionType = "sql_injection" /\ e.severity = "High"
                     ELSE /\ HasXss(req[r])
                          /\ e.intrusionType = "xss_attack"
                          /\ e.severity = "Medium"]_vars

C22_Witness ==
  /\ \E r \in ReqIds : /\ req[r].pc = "done" /\ req[r].payload = SqlXss
                       /\ req[r].evs = 1
  /\ \E r \in ReqIds : /\ req[r].pc = "done" /\ req[r].payload = Clean
                       /\ req[r].scans = 1 /\ req[r].evs = 0
  /\ Len(events) = 2
  /\ events[1].intrusionType = "xss_attack"
  /\ events[2].intrusionType = "sql_injection" /\ events[2].severity = "High"

\* C23: every temporary block is deactivated some time after its expiry:
\* whenever a record is active although its expiry has passed, later the
\* records with isActive = true are as many as the addresses isBlocked
\* answers true for (what getSystemStats reports as blocked is what is
\* blocked)
ActiveDocs == {i \in DOMAIN blockedIPs : blockedIPs[i].isActive}

BlockedAddresses == {ip \in IPs : isBlocked(blockedIPs, ip, now)}

ExpiredActive ==
  \E i \in ActiveDocs : /\ blockedIPs[i].expiresAt # NullTime
                        /\ blockedIPs[i].expiresAt <= now

C23_ExpiredEventuallyInactive ==
  ExpiredActive ~> (Cardinality(ActiveDocs) = Cardinality(BlockedAddresses))

\* C24: stale rate windows are swept at least once per window length, also
\* when no request arrives: no entry of the Map is older than twice the
\* window length
C24_StaleWindowsSwept ==
  \A ip \in IPs :
    requestCounts[ip].count > 0
    => now - requestCounts[ip].firstRequest <= 2 * REQUEST_WINDOW

\* C25: every login answered 401 Invalid credentials, for an unknown email as
\* for a wrong password, has its failed login activity stored with its
\* address, and the brute-force tally of the address counts it: once the
\* logins are answered, the tally of an address over the window is the
\* number of its failed logins (all logins here are answered within one
\* window, and no activity write meets a storage error)
C25_EveryFailureStored ==
  \A ip \in IPs :
    (LoginsQuiet /\ now <= timeWindow)
    => /\ Cardinality(FailedRecords(ip, now - timeWindow)) = failed[ip]
       /\ countRecentFailedLogins(userActivity, ip, now - timeWindow, TRUE)
            = failed[ip]

\* C26: blockIP makes a permanent block (expiresAt null) only when no
\* duration is given; for every numeric duration D, 0 included, the expiry
\* it computes, and the one the record holds after the call, is the call
\* time plus D minutes
C26_PermanentOnlyWithoutDuration ==
  /\ \A c \in CallIds :
       (call[c].pc = "pending" /\ call[c].op = "blockIP")
       => call[c].expiresAt = IF call[c].duration = NullDuration THEN NullTime
                              ELSE call[c].at + call[c].duration * Minute
  /\ \A ip \in IPs :
       lastBlock[ip].set
       => \A i \in DocsOf(ip) :
            (blockedIPs[i].expiresAt = NullTime)
              <=> (lastBlock[ip].duration = NullDuration)

\* C27: the login flow and the gate key a client by the same address: every
\* login and every request in flight carries the key both functions give
\* for its client; so a non-health request whose client's login address is
\* blocked when the gate looks it up is answered 403 IP_BLOCKED
C27_SameAddressKey ==
  [][/\ \A r \in ReqIds :
          req'[r].client # NoClient
          => getClientIP(req'[r].client) = getClientIp(req'[r].client)
     /\ \A l \in LoginIds :
          login'[l].client # NoClient
          => getClientIp(login'[l].client) = getClientIP(login'[l].client)
     /\ \A r \in ReqIds :
          ( /\ req[r].pc = "lookup" /\ req'[r].pc # "lookup"
            /\ req[r].client # NoClient
            /\ isBlocked(blockedIPs, AddressName(getClientIp(req[r].client)),
                         req[r].at) )
          => /\ req'[r].pc = "done"
             /\ req'[r].status = 403 /\ req'[r].code = "IP_BLOCKED"]_vars

\* C28 as claimed: an active permanent manual block of an address is never
\* weakened by the automatic brute-force block: no step gives its record a
\* finite expiry, blockType automatic or a null blocking actor
ManualPermanent(d) ==
  d.isActive /\ d.blockType = "manual" /\ d.expiresAt = NullTime

C28_ManualBlockNotWeakened ==
  [][\A i \in DOMAIN blockedIPs :
       ManualPermanent(blockedIPs[i])
       => /\ blockedIPs'[i].expiresAt = NullTime
          /\ blockedIPs'[i].blockType = "manual"
          /\ blockedIPs'[i].blockedBy = blockedIPs[i].blockedBy]_vars

\* C28 amended: the upsert that completes last decides the record.  The
\* automatic block of a login replaces reason, blockType, blocking actor and
\* expiry of whatever record the address has (brute_force_attack, automatic,
\* null, the escalation time plus blockDuration minutes) and the
\* administrator's block replaces them likewise; either adds one to
\* violationCount; the address keeps one record, which stays active
C28_LastBlockWins ==
  [][/\ \A l \in LoginIds :
          ( /\ login[l].pc = "block" /\ login'[l].pc = "done"
            /\ blocksDone'[login[l].ip] = blocksDone[login[l].ip] + 1 )
          => /\ Cardinality(DocsOf(login[l].ip)') = 1
             /\ \A i \in DocsOf(login[l].ip)' :
                  /\ blockedIPs'[i].reason = "brute_force_attack"
                  /\ blockedIPs'[i].blockType = "automatic"
                  /\ blockedIPs'[i].blockedBy = NoUser
                  /\ blockedIPs'[i].expiresAt
                       = login[l].at + blockDuration * Minute
                  /\ blockedIPs'[i].isActive
                  /\ blockedIPs'[i].violationCount = blocksDone'[login[l].ip]
     /\ \A c \in CallIds :
          ( /\ call[c].pc = "pending" /\ call[c].op = "blockIP"
            /\ call'[c].pc = "idle"
            /\ blocksDone'[call[c].ip] = blocksDone[call[c].ip] + 1 )
          => /\ Cardinality(DocsOf(call[c].ip)') = 1
             /\ \A i \in DocsOf(call[c].ip)' :
                  /\ blockedIPs'[i].reason = call[c].reason
                  /\ blockedIPs'[i].blockType = call[c].blockType
                  /\ blockedIPs'[i].blockedBy = call[c].blockedBy
                  /\ blockedIPs'[i].expiresAt = call[c].expiresAt
                  /\ blockedIPs'[i].isActive
                  /\ blockedIPs'[i].violationCount = blocksDone'[call[c].ip]
     /\ blocksDone' = blocksDone => blockedIPs' = blockedIPs]_vars

C28_Witness ==
  /\ blocksDone["ip1"] = 2 /\ called = 1 /\ call[1].pc = "idle"
  /\ \E i \in DocsOf("ip1") : /\ blockedIPs[i].blockType = "automatic"
                              /\ blockedIPs[i].blockedBy = NoUser
                              /\ blockedIPs[i].expiresAt # NullTime
                              /\ blockedIPs[i].violationCount = 2

\* C29: once no login is in flight, storage errors in the middle of an
\* escalation included, every brute_force IntrusionEvent marked isBlocked
\* with responseAction ip_blocked has a brute_force_attack record of its
\* address in the BlockedIP collection, created or refreshed by the
\* escalation that stored the event (as many completed blocks as events)
C29_BlockedEventHasBlock ==
  LoginsQuiet =>
    \A i \in DOMAIN events :
      ( /\ events[i].intrusionType = "brute_force"
        /\ events[i].isBlocked /\ events[i].responseAction = "ip_blocked" )
      => /\ BruteForceDocs(events[i].sourceIp) # {}
         /\ Cardinality(BruteForceEvents(events[i].sourceIp))
              <= blocksDone[events[i].sourceIp]

\* C30: brute-force escalation has no false positives.  Only a failed login
\* is analyzed, over the window that ends when its analysis starts; it goes
\* on to escalate only when at least maxFailedAttempts failed-login records
\* of its address lie in that window; a brute_force event is stored, and a
\* brute_force_attack block is created or refreshed, only by a login that
\* did so.  Older failures, successful logins and a failed count query
\* never escalate
C30_NoFalsePositive ==
  [][/\ \A l \in LoginIds :
          /\ (login[l].pc # "count" /\ login'[l].pc = "count")
             => /\ login[l].email # KnownEmail \/ ~login[l].valid
                /\ login'[l].at = now - timeWindow
          /\ (login[l].pc # "event" /\ login'[l].pc = "event")
             => /\ login[l].pc = "count"
                /\ Cardinality(FailedRecords(login[l].ip, login[l].at))
                     >= maxFailedAttempts
                /\ login'[l].recentFailures >= maxFailedAttempts
                /\ login'[l].ip = login[l].ip
          /\ (login[l].pc # "block" /\ login'[l].pc = "block")
             => login[l].pc = "event" /\ login'[l].ip = login[l].ip
          /\ login'[l].countErr => login'[l].pc = "done"
     /\ \A ip \in IPs :
          /\ BruteForceEvents(ip)' # BruteForceEvents(ip)
             => \E l \in LoginIds : login[l].pc = "event" /\ login[l].ip = ip
          /\ (\E i \in DocsOf(ip)' :
                 /\ blockedIPs'[i].reason = "brute_force_attack"
                 /\ blockedIPs'[i].isActive
                 /\ i \in DocsOf(ip) => blockedIPs'[i] # blockedIPs[i])
             => \E l \in LoginIds : login[l].pc = "block" /\ login[l].ip = ip]_vars

C30_Witness ==
  /\ now = timeWindow
  /\ BruteForceEvents("ip1") # {} /\ BruteForceDocs("ip1") # {}
  /\ Cardinality(FailedRecords("ip1", 0)) = 5
  /\ Cardinality(FailedRecords("ip1", 1)) = 1

====
